---- MODULE Spec2Model ----
(***************************************************************************)
(* A model of pyUSIrest: the token holder (auth.py), the HTTP verb layer   *)
(* and the hypermedia documents built on it (client.py, document.py), and  *)
(* the resource operations (client.py, usi.py).                            *)
(*                                                                         *)
(* Python's None is the empty sequence and a present value v is <<v>>, so  *)
(* that a field which may be unset always compares with values of its own  *)
(* kind.  Times are whole seconds.                                         *)
(***************************************************************************)
EXTENDS Integers, Sequences, FiniteSets, TLC

None == <<>>
Some(v) == <<v>>
Val(o) == o[1]

(***************************************************************************)
(* Bounds of the model.                                                    *)
(***************************************************************************)
MaxTokens == 2
MaxClients == 2
\* most pages a chain of 'next' links has
MaxPages == 3
\* most samples (validation results) a submission has
MaxSamples == 2
\* most entries a sampleRelationships list has
MaxRelationships == 2

(***************************************************************************)
(* Program constants.                                                      *)
(***************************************************************************)
\* datetime.timedelta keeps days apart from seconds: .days counts 86400 s
SecondsPerDay == 86400
\* get_duration warns below 300 seconds
WarnSeconds == 300
\* tests/test_auth.py generate_token: 'exp': now+3600
TokenLife == 3600

VARIABLES
    now,        \* the wall clock read by datetime.datetime.now()
    auth,       \* the Auth object under construction or use (auth.py)
    answer,     \* what the last Auth method call returned or raised
    clients,    \* Client instances: client id -> its attributes
    headers,    \* the class attribute Client.headers (one dictionary)
    call,       \* the last Client operation: requests sent, replies, result
    pages,      \* the paged collection the remote service serves
    pg,         \* the generator returned by Document.parse_response
    trace,      \* what the generator and its consumer did, oldest first
    consumer,   \* the code iterating over the generator
    remote,     \* the submission as the remote service holds it
    fin,        \* one execution of Submission.finalize
    doc,        \* a Document (or Submission, Sample) object and its last call
    site,       \* the resource the object stands for, as the service holds it
    heap,       \* the sample_data dictionary of a caller and what it refers to
    smp         \* the last create_sample or patch call made with it

authVars == <<auth, answer>>
clientVars == <<clients, headers, call>>
pageVars == <<pages, pg, trace, consumer>>
finVars == <<remote, fin>>
docVars == <<doc, site>>
sampleVars == <<heap, smp>>

(***************************************************************************)
(* Token strings and texts.  A reply body or a token argument is a text;   *)
(* python_jwt.process_jwt accepts the texts that are JWTs.  A JWT's claims *)
(* carry 'iat' and 'exp' (either may be missing from a token).             *)
(***************************************************************************)
TokenIds == 1..MaxTokens

Jwt(id, iat, exp) == [kind |-> "jwt", id |-> id, iat |-> iat, exp |-> exp]

\* tests/test_auth.py generate_token(now): iat = now, exp = now + 3600.
\* Token k is issued at (k - 1) * TokenLife.
GoodToken(k) == Jwt(k, Some((k - 1) * TokenLife), Some(k * TokenLife))

GoodTokens == {GoodToken(k) : k \in TokenIds}

\* A JWT whose claims lack 'exp', and a text that is no JWT at all.
NoExpToken == Jwt(0, Some(0), None)
ErrorText == [kind |-> "text", id |-> 0, iat |-> None, exp |-> None]

Texts == GoodTokens \cup {NoExpToken, ErrorText}

(***************************************************************************)
(* Exceptions.                                                             *)
(***************************************************************************)
Raise(kind, msg) == Some([kind |-> kind, msg |-> msg])
NoError == None

TokenExpiredMsg == "Your token is expired"

(***************************************************************************)
(* auth.py: class Auth                                                     *)
(***************************************************************************)
\* Auth.__init__, lines 50-54: every attribute starts as None
NewAuth == [expire |-> None, issued |-> None, header |-> None,
            claims |-> None, token |-> None, status_code |-> None]

\* Auth._decode: process_jwt first (raises on a text that is no JWT, before
\* anything is assigned), then header and claims, then issued, then expire.
\* The result is the object after the call and the exception, if any.
_decode(a, token) ==
    IF token.kind # "jwt"
    THEN [obj |-> a, err |-> Raise("JWTError", "invalid token")]
    ELSE LET a1 == [a EXCEPT !.header = Some("RS256"), !.claims = Some(token.id)]
         IN IF token.iat = None
            THEN [obj |-> a1, err |-> Raise("KeyError", "iat")]
            ELSE LET a2 == [a1 EXCEPT !.issued = token.iat]
                 IN IF token.exp = None
                    THEN [obj |-> a2, err |-> Raise("KeyError", "exp")]
                    ELSE [obj |-> [a2 EXCEPT !.expire = token.exp],
                          err |-> NoError]

\* Auth.token setter: decode, and only then keep the string
set_token(a, token) ==
    LET d == _decode(a, token)
    IN IF d.err # NoError
       THEN d
       ELSE [obj |-> [d.obj EXCEPT !.token = Some(token)], err |-> NoError]

\* Auth.__init__ decoding the reply body before looking at its status
Auth_login_decode_first(status, text) ==
    LET r == set_token([NewAuth EXCEPT !.status_code = Some(status)], text)
    IN IF status # 200
       THEN [obj |-> r.obj,
             err |-> Raise("ConnectionError", <<"Got status", status, text>>)]
       ELSE r

\* Auth.__init__ with user and password: the reply of the auth endpoint is
\* (status, text).  A status other than 200 raises before the token is set.
Auth_login(status, text) ==
    LET a == [NewAuth EXCEPT !.status_code = Some(status)]
    IN IF status # 200
       THEN [obj |-> a,
             err |-> Raise("ConnectionError", <<"Got status", status, text>>)]
       ELSE set_token(a, text)

\* Auth.__init__ with token=...
Auth_token(token) == set_token(NewAuth, token)

\* Auth.get_duration: expire - now, a timedelta
get_duration(a, clock) == Val(a.expire) - clock

\* days computed by truncating towards zero instead of flooring
days_truncated(duration) ==
    IF duration >= 0
    THEN duration \div SecondsPerDay
    ELSE -((-duration) \div SecondsPerDay)

\* datetime.timedelta.days: the timedelta is normalised so that
\* 0 <= seconds < 86400, hence days is the floor of total seconds / 86400
days(duration) == duration \div SecondsPerDay


\* Auth.is_expired: get_duration().days < 0
is_expired(a, clock) == days(get_duration(a, clock)) < 0

(***************************************************************************)
(* The two earlier revisions of the Auth class kept in the repository.     *)
(* Their _decode assigns the same attributes in the same order.            *)
(***************************************************************************)
\* python_ebi_aap/auth.py, Auth.token setter: decode, then self._token = None
python_ebi_aap_set_token(a, token) ==
    LET d == _decode(a, token)
    IN IF d.err # NoError
       THEN d
       ELSE [obj |-> [d.obj EXCEPT !.token = None], err |-> NoError]

\* python_ebi_aap/auth.py, Auth.is_expired: get_duration().days > 0
python_ebi_aap_is_expired(a, clock) == days(get_duration(a, clock)) > 0

\* pyEBIrest/auth.py, Auth.token setter: decode, then self._token = token
pyEBIrest_set_token(a, token) ==
    LET d == _decode(a, token)
    IN IF d.err # NoError
       THEN d
       ELSE [obj |-> [d.obj EXCEPT !.token = Some(token)], err |-> NoError]

\* pyEBIrest/auth.py, Auth.is_expired: get_duration().days < 0
pyEBIrest_is_expired(a, clock) == days(get_duration(a, clock)) < 0

\* Auth(token=token) built by each revision, then its token getter and its
\* is_expired() at the same clock value
Revisions(token, clock) ==
    LET old == python_ebi_aap_set_token(NewAuth, token).obj
        mid == pyEBIrest_set_token(NewAuth, token).obj
        new == Auth_token(token).obj
    IN [python_ebi_aap |-> [token |-> old.token,
                            expired |-> python_ebi_aap_is_expired(old, clock)],
        pyEBIrest |-> [token |-> mid.token,
                       expired |-> pyEBIrest_is_expired(mid, clock)],
        pyUSIrest |-> [token |-> new.token,
                       expired |-> is_expired(new, clock)]]

(***************************************************************************)
(* The clock.  It moves forward to the instants around each token's expiry *)
(* where the remaining time is 300 s, 1 s, 0, -1 s, -30 s, one second less *)
(* than a day past, exactly a day past, and a second more.                 *)
(***************************************************************************)
Offsets == {-WarnSeconds, -1, 0, 1, 30,
            SecondsPerDay - 1, SecondsPerDay, SecondsPerDay + 1}

ClockPoints == {0} \cup {Val(t.exp) + o : t \in GoodTokens, o \in Offsets}

Tick ==
    /\ \E t \in ClockPoints : t > now /\ now' = t
    /\ UNCHANGED <<authVars, clientVars, pageVars, finVars, docVars, sampleVars>>

(***************************************************************************)
(* SpecAuth: building an Auth and asking it whether it is expired.         *)
(***************************************************************************)
AuthStatuses == {200, 400, 401, 500}

NoAnswer == [op |-> "none", err |-> NoError, remaining |-> None,
             expired |-> None, status |-> None, text |-> None,
             revisions |-> None]

\* Auth(user=..., password=...): one GET to the auth endpoint
AuthLogin ==
    \E status \in AuthStatuses, text \in Texts :
        LET r == Auth_login(status, text)
        IN /\ auth' = r.obj
           /\ answer' = [NoAnswer EXCEPT !.op = "login", !.err = r.err,
                           !.status = Some(status), !.text = Some(text)]
           /\ UNCHANGED <<now, clientVars, pageVars, finVars, docVars, sampleVars>>

\* Auth(token=...)
AuthFromToken ==
    \E token \in Texts :
        LET r == Auth_token(token)
        IN /\ auth' = r.obj
           /\ answer' = [NoAnswer EXCEPT !.op = "token", !.err = r.err,
                           !.text = Some(token)]
           /\ UNCHANGED <<now, clientVars, pageVars, finVars, docVars, sampleVars>>

\* auth.token = token on an Auth whose construction succeeded
AuthSetToken ==
    /\ auth.token # None
    /\ \E token \in Texts :
          LET r == set_token(auth, token)
          IN /\ auth' = r.obj
             /\ answer' = [NoAnswer EXCEPT !.op = "set_token", !.err = r.err,
                             !.text = Some(token)]
    /\ UNCHANGED <<now, clientVars, pageVars, finVars, docVars, sampleVars>>

\* auth.is_expired() on an Auth whose construction succeeded
IsExpired ==
    /\ auth.token # None
    /\ answer' = [NoAnswer EXCEPT !.op = "is_expired",
                    !.remaining = Some(get_duration(auth, now)),
                    !.expired = Some(is_expired(auth, now)),
                    !.revisions = Some(Revisions(Val(auth.token), now))]
    /\ UNCHANGED <<now, auth, clientVars, pageVars, finVars, docVars, sampleVars>>


(***************************************************************************)
(* client.py: class Client.  The headers dictionary is an attribute of the *)
(* class: self.headers in any instance, of Client or of a subclass, is     *)
(* that one dictionary, and no instance ever binds a dictionary of its own.*)
(***************************************************************************)
ClientIds == 1..MaxClients

\* a headers dictionary with no key
EmptyHeaders == [Accept |-> None, UserAgent |-> None,
                 Authorization |-> None, ContentType |-> None]

\* Client.headers as the class statement leaves it, lines 42-45
DefaultHeaders == [EmptyHeaders EXCEPT !.Accept = Some("application/hal+json"),
                                       !.UserAgent = Some("pyUSIrest")]

\* "Bearer {token}".format(token=self._auth.token)
Bearer(a) == Some(<<"Bearer", Val(a.token)>>)

\* Client.__init__, lines 56-58, before the auth setter runs
NewClient == [auth |-> NewAuth, last_response |-> None,
              last_status_code |-> None]

\* Client.__check without the test of the token
Client__check_no_expiry(cl, h, clock) ==
    [err |-> NoError,
     headers |-> IF h = None \/ h = Some(EmptyHeaders) THEN headers ELSE Val(h)]

\* Client.__check: raise when the token is expired, else the headers to
\* send: the argument, or self.headers when the argument is None or empty
Client__check(cl, h, clock) ==
    IF is_expired(cl.auth, clock)
    THEN [err |-> Raise("RuntimeError", TokenExpiredMsg),
          headers |-> EmptyHeaders]
    ELSE [err |-> NoError,
          headers |-> IF h = None \/ h = Some(EmptyHeaders)
                      THEN headers ELSE Val(h)]

\* the common body of the five verb methods: __check, then one call of
\* requests.<verb> with the headers __check returned.  wire is what is sent.
send(cl, c, verb, h, clock) ==
    LET k == Client__check(cl, h, clock)
    IN IF k.err # NoError
       THEN [err |-> k.err, wire |-> <<>>]
       ELSE [err |-> NoError,
             wire |-> <<[verb |-> verb, client |-> c, headers |-> k.headers]>>]

\* Client.request (generic GET), post, patch, delete, put
request(cl, c, h, clock) == send(cl, c, "GET", h, clock)
post(cl, c, h, clock) == send(cl, c, "POST", h, clock)
patch(cl, c, h, clock) == send(cl, c, "PATCH", h, clock)
delete(cl, c, h, clock) == send(cl, c, "DELETE", h, clock)
put(cl, c, h, clock) == send(cl, c, "PUT", h, clock)

\* the record of one operation of client c, whose Auth is a: whether the
\* caller passed no headers, what is_expired() answered when the operation
\* began, the headers argument of a verb call, the requests sent, the replies received, the exception raised,
\* and whether a value was returned
NewCall(op, c, a) ==
    [op |-> op, client |-> c, auth |-> a, default |-> TRUE, arg |-> None,
     expired |-> None, wire |-> <<>>, replies |-> <<>>,
     err |-> NoError, obj |-> FALSE, value |-> None]

\* copy.copy(self.headers) with Content-Type added, as the create methods do
CopyWithContentType == [headers EXCEPT !.ContentType = Some("application/json")]

\* the header arguments a caller passes: none, such a copy, or a dictionary
\* holding only the key the caller wants to set
HeaderArgs ==
    {None, Some(CopyWithContentType),
     Some([EmptyHeaders EXCEPT !.ContentType = Some("application/json")])}

(***************************************************************************)
(* Actions on clients.                                                     *)
(***************************************************************************)
\* the auth setter, lines 69-84: keep the Auth (or build one from a token
\* string, which may raise), then write the token into self.headers
set_auth(c, cl, text) ==
    LET r == Auth_token(text)
    IN IF r.err # NoError
       THEN /\ call' = Some([NewCall("auth", c, cl.auth) EXCEPT !.err = r.err])
            /\ UNCHANGED <<clients, headers>>
       ELSE /\ clients' = [clients EXCEPT ![c] = Some([cl EXCEPT !.auth = r.obj])]
            /\ headers' = [headers EXCEPT !.Authorization = Bearer(r.obj)]
            /\ call' = Some(NewCall("auth", c, r.obj))

\* Client(auth): a new instance
ClientInit ==
    \E c \in ClientIds, text \in Texts :
        /\ clients[c] = None
        /\ set_auth(c, NewClient, text)
        /\ UNCHANGED <<now, authVars, pageVars, finVars, docVars, sampleVars>>

\* client.auth = auth on an existing instance
ClientSetAuth ==
    \E c \in ClientIds, text \in Texts :
        /\ clients[c] # None
        /\ set_auth(c, Val(clients[c]), text)
        /\ UNCHANGED <<now, authVars, pageVars, finVars, docVars, sampleVars>>

\* one of the five verb methods called on client c with header argument h;
\* the method returns the response whatever its status
VerbCall(op, c, h, r) ==
    /\ call' = Some([NewCall(op, c, Val(clients[c]).auth) EXCEPT
                       !.default = (h = None),
                       !.arg = h,
                       !.expired = Some(is_expired(Val(clients[c]).auth, now)),
                       !.wire = r.wire,
                       !.err = r.err,
                       !.obj = (r.err = NoError)])
    /\ UNCHANGED <<now, authVars, clients, headers, pageVars, finVars, docVars, sampleVars>>

Request ==
    \E c \in ClientIds, h \in HeaderArgs :
        /\ clients[c] # None
        /\ VerbCall("request", c, h, request(Val(clients[c]), c, h, now))

Post ==
    \E c \in ClientIds, h \in HeaderArgs :
        /\ clients[c] # None
        /\ VerbCall("post", c, h, post(Val(clients[c]), c, h, now))

Patch ==
    \E c \in ClientIds, h \in HeaderArgs :
        /\ clients[c] # None
        /\ VerbCall("patch", c, h, patch(Val(clients[c]), c, h, now))

Delete ==
    \E c \in ClientIds, h \in HeaderArgs :
        /\ clients[c] # None
        /\ VerbCall("delete", c, h, delete(Val(clients[c]), c, h, now))

Put ==
    \E c \in ClientIds, h \in HeaderArgs :
        /\ clients[c] # None
        /\ VerbCall("put", c, h, put(Val(clients[c]), c, h, now))

VerbOps == {"request", "post", "patch", "delete", "put"}

\* the clock moves to a token's expiry instant, or to the second after it
ExpiryPoints == {Val(t.exp) + o : t \in GoodTokens, o \in {0, 1}}

Elapse ==
    /\ \E t \in ExpiryPoints : t > now /\ now' = t
    /\ UNCHANGED <<authVars, clientVars, pageVars, finVars, docVars, sampleVars>>


(***************************************************************************)
(* client.py: the operations built on the verbs.  Each operation is the    *)
(* sequence of HTTP requests its code makes.  A step says which verb is    *)
(* called with which headers, the status the code compares the reply with  *)
(* (None when the code does not look at the status), what the code raises  *)
(* on a 404, whether last_response and last_status_code are assigned       *)
(* before or after that comparison and on which object, and whether the    *)
(* reply body is then decoded with response.json().                        *)
(***************************************************************************)
\* a reply of the remote service: its status and whether its body is JSON
Statuses == {200, 201, 204, 401, 404, 500}
Replies == [status : Statuses, json : BOOLEAN]

Step(verb, hdr, expect, store, on, parse) ==
    [verb |-> verb, hdr |-> hdr, expect |-> expect, on404 |-> "ConnectionError",
     store |-> store, on |-> on, parse |-> parse]

\* Client.follow_url(url), lines 189-208
Client_follow_url == <<Step("GET", "self", Some(200), "before", "self", FALSE)>>

\* Document.follow_url(tag), lines 274-308: Client.follow_url, then
\* document.parse_response(response)
Document_follow_url == <<Step("GET", "self", Some(200), "before", "self", TRUE)>>

\* Document.follow_self_url, lines 328-357
follow_self_url == <<Step("GET", "self", Some(200), "before", "self", TRUE)>>

\* Document.read_url(auth, url), lines 359-385: a new Client follows the url
read_url == <<Step("GET", "self", Some(200), "before", "other", TRUE)>>

\* Submission.update_status, lines 1287-1292: follow_url('submissionStatus')
update_status == Document_follow_url

\* Submission.reload, lines 1471-1479: follow_self_url, then update_status
reload == follow_self_url \o update_status

\* Root.get_submission_by_name, lines 539-575: 200 gives a Submission whose
\* status is then updated, 404 raises NameError, the rest ConnectionError
get_submission_by_name ==
    <<[Step("GET", "self", Some(200), "before", "self", TRUE)
          EXCEPT !.on404 = "NameError"],
      Step("GET", "self", Some(200), "before", "other", TRUE)>>

\* User.get_my_id, lines 616-636: the status is stored and never compared
get_my_id == <<Step("GET", "self", None, "before", "self", TRUE)>>

\* User.get_user_by_id, lines 638-661: the same, returning a User
get_user_by_id == <<Step("GET", "self", None, "before", "self", TRUE)>>

\* User.create_team, lines 712-754
create_team == <<Step("POST", "copy", Some(201), "before", "self", TRUE)>>

\* User.add_user_to_team, lines 860-887
add_user_to_team == <<Step("PUT", "self", Some(200), "before", "self", TRUE)>>

\* Team.create_submission, lines 1069-1106: POST, parse, then the new
\* Submission reloads itself
create_submission ==
    <<Step("POST", "copy", Some(201), "before", "self", TRUE),
      Step("GET", "self", Some(200), "before", "other", TRUE),
      Step("GET", "self", Some(200), "before", "other", TRUE)>>

\* Submission.create_sample, lines 1294-1337: follow 'contents', then POST
create_sample ==
    <<Step("GET", "self", Some(200), "before", "self", TRUE),
      Step("POST", "copy", Some(201), "before", "self", TRUE)>>

\* Submission.delete, lines 1454-1469
Submission_delete == <<Step("DELETE", "none", Some(204), "before", "self", FALSE)>>

\* Sample.delete, lines 1620-1635: the attributes are assigned after the
\* comparison of the status
Sample_delete == <<Step("DELETE", "none", Some(204), "after", "self", FALSE)>>

\* Sample.patch, lines 1644-1663: PATCH, then reload (follow_self_url)
Sample_patch ==
    <<Step("PATCH", "none", Some(200), "before", "self", FALSE)>> \o follow_self_url

\* the headers argument of a step
HeadersOf(st) ==
    CASE st.hdr = "none" -> None
      [] st.hdr = "self" -> Some(headers)
      [] st.hdr = "copy" -> Some(CopyWithContentType)

\* what the code raises for a reply whose status is not the expected one
StatusError(st, reply) ==
    IF reply.status = 404 /\ st.on404 = "NameError"
    THEN Raise("NameError", "not found")
    ELSE Raise("ConnectionError", reply.status)

\* one step with the reply it receives: acc is the operation so far
\* (wire, replies, err) with last, the reply kept in self.last_response
StepResult(cl, c, clock, st, reply, acc) ==
    LET s == send(cl, c, st.verb, HeadersOf(st), clock)
        got == [acc EXCEPT !.wire = acc.wire \o s.wire,
                           !.replies = Append(acc.replies, reply)]
        kept == [got EXCEPT !.last = IF st.on = "self" THEN Some(reply) ELSE @]
        before == IF st.store = "before" THEN kept ELSE got
        after == IF st.store = "after" THEN kept ELSE before
    IN IF s.err # NoError
       THEN [acc EXCEPT !.err = s.err]
       ELSE IF st.expect # None /\ reply.status # Val(st.expect)
            THEN [before EXCEPT !.err = StatusError(st, reply)]
            ELSE IF st.parse /\ ~reply.json
                 THEN [after EXCEPT !.err = Raise("ValueError", "no JSON")]
                 ELSE after

\* every way the steps from i on can go: the operation stops at the first
\* step that raises
RECURSIVE Outcomes(_, _, _, _, _, _)
Outcomes(cl, c, clock, script, i, acc) ==
    IF i > Len(script)
    THEN {acc}
    ELSE UNION {
            LET r == StepResult(cl, c, clock, script[i], reply, acc)
            IN IF r.err # NoError
               THEN {r}
               ELSE Outcomes(cl, c, clock, script, i + 1, r)
            : reply \in Replies }

\* an operation of client c
Operation(op, c, script) ==
    /\ clients[c] # None
    /\ LET cl == Val(clients[c])
           start == [wire |-> <<>>, replies |-> <<>>, err |-> NoError,
                     last |-> cl.last_response]
       IN \E o \in Outcomes(cl, c, now, script, 1, start) :
            /\ call' = Some([NewCall(op, c, cl.auth) EXCEPT
                               !.expired = Some(is_expired(cl.auth, now)),
                               !.wire = o.wire,
                               !.replies = o.replies,
                               !.err = o.err,
                               !.obj = (o.err = NoError)])
            /\ clients' = [clients EXCEPT ![c] = Some(
                   [cl EXCEPT !.last_response = o.last,
                              !.last_status_code =
                                  IF o.last = None THEN None
                                  ELSE Some(Val(o.last).status)])]
    /\ UNCHANGED <<now, authVars, headers, pageVars, finVars, docVars, sampleVars>>

FollowUrl == \E c \in ClientIds : Operation("follow_url", c, Client_follow_url)
FollowTag == \E c \in ClientIds : Operation("Document.follow_url", c, Document_follow_url)
FollowSelfUrl == \E c \in ClientIds : Operation("follow_self_url", c, follow_self_url)
ReadUrl == \E c \in ClientIds : Operation("read_url", c, read_url)
GetSubmissionByName ==
    \E c \in ClientIds : Operation("get_submission_by_name", c, get_submission_by_name)
GetMyId == \E c \in ClientIds : Operation("get_my_id", c, get_my_id)
GetUserById == \E c \in ClientIds : Operation("get_user_by_id", c, get_user_by_id)
CreateTeam == \E c \in ClientIds : Operation("create_team", c, create_team)
AddUserToTeam == \E c \in ClientIds : Operation("add_user_to_team", c, add_user_to_team)
CreateSubmission == \E c \in ClientIds : Operation("create_submission", c, create_submission)
CreateSample == \E c \in ClientIds : Operation("create_sample", c, create_sample)
SubmissionDelete == \E c \in ClientIds : Operation("Submission.delete", c, Submission_delete)
SampleDelete == \E c \in ClientIds : Operation("Sample.delete", c, Sample_delete)
SamplePatch == \E c \in ClientIds : Operation("Sample.patch", c, Sample_patch)

\* the operations that issue a GET first and compare its status
GetOps == {"follow_url", "Document.follow_url", "follow_self_url", "read_url",
           "get_submission_by_name"}

\* every operation of this section
ResourceOps == GetOps \cup {"get_my_id", "get_user_by_id", "create_team",
    "add_user_to_team", "create_submission", "create_sample",
    "Submission.delete", "Sample.delete", "Sample.patch"}

\* the names a submission is looked up by
SubmissionNames == {"s1", "s2"}

\* Client.get of the resource layer (usi.py calls it as submission.get(url)).
\* Sections 4.2 and 6 of the specification, tests/test_root.py 239-257: the
\* reply is kept in last_response and last_status_code, then a 5xx raises
\* USIConnectionError, a 4xx USIDataError and any other status but 200 the
\* generic mismatch error.
Client_get(reply) ==
    [last |-> Some(reply),
     err |-> CASE reply.status = 200 -> NoError
               [] reply.status \in 500..599 ->
                     Raise("USIConnectionError", reply.status)
               [] reply.status \in 400..499 ->
                     Raise("USIDataError", reply.status)
               [] OTHER -> Raise("Mismatch", reply.status)]

\* A variant that takes every USIDataError for a missing submission.
Root_get_submission_by_name_any(name, reply) ==
    LET r == Client_get(reply)
    IN  IF r.err # NoError /\ Val(r.err).kind = "USIDataError"
        THEN Raise("NameError", name)
        ELSE r.err

\* usi.py 132-165 Root.get_submission_by_name: submission.get(url) on a new
\* Submission; a USIDataError becomes NameError when the submission's
\* last_status_code is 404 and is raised again otherwise
Root_get_submission_by_name(name, reply) ==
    LET r == Client_get(reply)
    IN  IF r.err # NoError /\ Val(r.err).kind = "USIDataError"
        THEN IF Val(r.last).status = 404
             THEN Raise("NameError", name)
             ELSE r.err
        ELSE r.err

\* root.get_submission_by_name(name) by client c
RootGetSubmissionByName ==
    /\ \E c \in ClientIds, name \in SubmissionNames, reply \in Replies :
          /\ clients[c] # None
          /\ LET cl == Val(clients[c])
                 s == send(cl, c, "GET", Some(headers), now)
                 err == IF s.err # NoError THEN s.err
                        ELSE Root_get_submission_by_name(name, reply)
             IN  call' = Some([NewCall("Root.get_submission_by_name", c, cl.auth)
                                 EXCEPT !.arg = Some(name),
                                        !.expired = Some(is_expired(cl.auth, now)),
                                        !.wire = s.wire,
                                        !.replies = IF s.err # NoError THEN <<>>
                                                    ELSE <<reply>>,
                                        !.err = err,
                                        !.obj = (err = NoError)])
    /\ UNCHANGED <<now, authVars, clients, headers, pageVars, finVars, docVars, sampleVars>>

\* the submissionStatus documents the service answers with
SubmissionStatuses == {"Draft", "Submitted"}

\* the replies to the requests of create_submission: status and, in the
\* body, the 'status' of a submissionStatus document
CreateReplies == [status : {200, 201, 500}, json : {TRUE},
                  value : SubmissionStatuses]

\* Client.post of the resource layer (usi.py calls it as self.post(url,
\* payload, headers)).  Section 6 of the specification: a POST expects 201,
\* classified as Client_get classifies a GET.
Client_post(reply) ==
    [last |-> Some(reply),
     err |-> CASE reply.status = 201 -> NoError
               [] reply.status \in 500..599 ->
                     Raise("USIConnectionError", reply.status)
               [] reply.status \in 400..499 ->
                     Raise("USIDataError", reply.status)
               [] OTHER -> Raise("Mismatch", reply.status)]

\* A variant that returns the new Submission without reloading it.
Team_create_submission_no_reload(c, cl, replies) ==
    LET Wire(verb, h, link) ==
            [verb |-> verb, client |-> c, headers |-> h, link |-> link]
        p == Client_post(replies[1])
    IN  [wire |-> <<Wire("POST", CopyWithContentType, "submissions:create")>>,
         replies |-> <<replies[1]>>,
         err |-> p.err,
         value |-> IF p.err = NoError THEN Some(replies[1].value) ELSE None]

\* usi.py 623-652 Team.create_submission: POST to 'submissions:create' with
\* a copy of the headers, Submission(auth, data=response.json()), then
\* submission.reload() (1044-1052): follow_self_url, and update_status
\* (868-873), which follows 'submissionStatus' and keeps document.status.
\* replies are the replies to the requests, as far as they are sent.
Team_create_submission(c, cl, replies) ==
    LET Wire(verb, h, link) ==
            [verb |-> verb, client |-> c, headers |-> h, link |-> link]
        w1 == <<Wire("POST", CopyWithContentType, "submissions:create")>>
        w2 == Append(w1, Wire("GET", headers, "self"))
        w3 == Append(w2, Wire("GET", headers, "submissionStatus"))
        p == Client_post(replies[1])
        g == Client_get(replies[2])
        u == Client_get(replies[3])
        Out(w, n, e, v) ==
            [wire |-> w, replies |-> SubSeq(replies, 1, n), err |-> e,
             value |-> v]
    IN  IF p.err # NoError THEN Out(w1, 1, p.err, None)
        ELSE IF g.err # NoError THEN Out(w2, 2, g.err, None)
        ELSE IF u.err # NoError THEN Out(w3, 3, u.err, None)
        ELSE Out(w3, 3, NoError, Some(replies[3].value))

\* team.create_submission() by client c
TeamCreateSubmission ==
    /\ \E c \in ClientIds, replies \in [1..3 -> CreateReplies] :
          /\ clients[c] # None
          /\ LET cl == Val(clients[c])
                 k == Client__check(cl, Some(CopyWithContentType), now)
                 r == Team_create_submission(c, cl, replies)
             IN  call' = Some(
                    IF k.err # NoError
                    THEN [NewCall("Team.create_submission", c, cl.auth) EXCEPT
                             !.expired = Some(TRUE), !.err = k.err]
                    ELSE [NewCall("Team.create_submission", c, cl.auth) EXCEPT
                             !.expired = Some(FALSE),
                             !.wire = r.wire,
                             !.replies = r.replies,
                             !.err = r.err,
                             !.value = r.value,
                             !.obj = (r.err = NoError)])
    /\ UNCHANGED <<now, authVars, clients, headers, pageVars, finVars, docVars, sampleVars>>

\* section 6 of the specification: the status each verb expects
ExpectedStatus(verb) ==
    CASE verb = "GET" -> 200
      [] verb = "POST" -> 201
      [] verb = "PATCH" -> 200
      [] verb = "PUT" -> 200
      [] verb = "DELETE" -> 204

(***************************************************************************)
(* Pagination: the generator Document.parse_response (document.py) and the *)
(* code that iterates over it (tests/test_document.py, usi.py Root).       *)
(***************************************************************************)
TeamNames == {"a", "b"}

\* the 'teams' entry of a page's _embedded: None when the key is absent
TeamLists ==
    {None, Some(<<>>), Some(<<"a">>), Some(<<"b">>), Some(<<"a", "b">>)}

\* What the remote service can serve from one start page.  Every page has at
\* most one 'next' link, so the pages reachable from the start are a chain
\* 1 -> 2 -> ... -> n whose last page links to nothing (back = 0) or to a
\* page of the chain (back in 1..n).  bare: the first page has no
\* '_embedded' key at all (and so no 'teams' entry in it).
PageGraphs ==
    {g \in UNION {[n : {n}, back : 0..n, teams : [1..n -> TeamLists],
                   bare : BOOLEAN] : n \in 1..MaxPages} :
        g.bare => g.teams[1] = None}

\* response.json() of the GET of page p
Page(g, p) ==
    [self |-> p,
     next |-> IF p < g.n THEN Some(p + 1)
              ELSE IF g.back # 0 THEN Some(g.back) ELSE None,
     teams |-> g.teams[p]]

\* statuses a GET sent from inside the generator can come back with
FetchStatuses == {200, 500}

Event(ev, page) == [ev |-> ev, page |-> page]

\* the log keeps the first LogCap events; a finite chain never fills it
LogCap == 3 * (MaxPages + 2)
Log(log, events) ==
    LET all == log \o events
    IN  IF Len(all) <= LogCap THEN all ELSE SubSeq(all, 1, LogCap)

\* parse_response(response): calling a generator function runs none of it
parse_response(p) == [state |-> "created", response |-> p, data |-> None]

\* A variant that moves to the 'next' page before its first yield.
parse_response_next_skip_first(g, gen, status) ==
    LET data == IF gen.state = "created" THEN Page(g, gen.response)
                ELSE Val(gen.data)
    IN  IF data.next # None
        THEN LET url == Val(data.next)
             IN  IF status = 200
                 THEN [gen |-> [gen EXCEPT !.state = "suspended",
                                           !.data = Some(Page(g, url))],
                       events |-> <<Event("get", url), Event("yield", url)>>]
                 ELSE [gen |-> [gen EXCEPT !.state = "raised"],
                       events |-> <<Event("get", url)>>]
        ELSE [gen |-> [gen EXCEPT !.state = "finished"], events |-> <<>>]

\* A variant whose loop reads the page again when it has no 'next' link.
parse_response_next_refetch(g, gen, status) ==
    IF gen.state = "created"
    THEN LET data == Page(g, gen.response)
         IN  [gen |-> [gen EXCEPT !.state = "suspended", !.data = Some(data)],
              events |-> <<Event("yield", data.self)>>]
    ELSE LET data == Val(gen.data)
             url == IF data.next # None THEN Val(data.next) ELSE data.self
         IN  IF status = 200
             THEN [gen |-> [gen EXCEPT !.data = Some(Page(g, url))],
                   events |-> <<Event("get", url), Event("yield", url)>>]
             ELSE [gen |-> [gen EXCEPT !.state = "raised"],
                   events |-> <<Event("get", url)>>]

\* A variant that reads the following page before it is asked for it.
parse_response_next_prefetch(g, gen, status) ==
    LET data == IF gen.state = "created" THEN Page(g, gen.response)
                ELSE Val(gen.data)
        ahead == IF data.next # None /\ gen.state = "created"
                 THEN <<Event("get", Val(data.next))>> ELSE <<>>
    IN  IF gen.state = "created"
        THEN [gen |-> [gen EXCEPT !.state = "suspended", !.data = Some(data)],
              events |-> <<Event("yield", data.self)>> \o ahead]
        ELSE IF data.next # None
        THEN LET url == Val(data.next)
             IN  [gen |-> [gen EXCEPT !.data = Some(Page(g, url))],
                  events |-> <<Event("yield", url)>>]
        ELSE [gen |-> [gen EXCEPT !.state = "finished"], events |-> <<>>]

\* document.py 85-109.  One next() on the generator: the statements it runs
\* up to its next yield, its return or the exception that leaves it.
\* status is the status of the GET it sends, when it sends one.
parse_response_next(g, gen, status) ==
    IF gen.state = "created"
    THEN \* data = response.json(); yield data
         LET data == Page(g, gen.response)
         IN  [gen |-> [gen EXCEPT !.state = "suspended", !.data = Some(data)],
              events |-> <<Event("yield", data.self)>>]
    ELSE \* resumed after a yield: while 'next' in data['_links']
         LET data == Val(gen.data)
         IN  IF data.next # None
             THEN LET url == Val(data.next)
                  IN  IF status = 200
                      THEN \* response = self.get(url); yield data
                           [gen |-> [gen EXCEPT !.data = Some(Page(g, url))],
                            events |-> <<Event("get", url),
                                         Event("yield", url)>>]
                      ELSE \* self.get raises: the exception ends the generator
                           [gen |-> [gen EXCEPT !.state = "raised"],
                            events |-> <<Event("get", url)>>]
             ELSE [gen |-> [gen EXCEPT !.state = "finished"],
                   events |-> <<>>]

\* the code iterating over the generator: list(document.paginate()), a
\* lookup by name (mode "find", or "find_domain" for the unpaged listing of
\* domains), or list(accessor()) for a collection accessor (mode "collect")
NewConsumer(mode, name) ==
    [mode |-> mode, name |-> name, accessor |-> "Root.get_user_teams",
     state |-> "running", started |-> FALSE, nonempty |-> FALSE,
     found |-> None, err |-> None, msg |-> None]

\* the collection accessors of usi.py and what each tests before it iterates
Accessors ==
    {"Root.get_user_teams", "Root.get_user_submissions",
     "Team.get_submissions", "User.get_teams", "Submission.get_samples",
     "Submission.get_validation_results"}

Guard(accessor) ==
    CASE accessor \in {"Root.get_user_teams", "Root.get_user_submissions",
                       "Team.get_submissions"} -> "collection"
      [] accessor = "Submission.get_samples" -> "embedded"
      [] OTHER -> "none"

Consumers ==
    {NewConsumer("list", "")}
    \cup {[NewConsumer("find", t) EXCEPT !.accessor = a] :
             t \in TeamNames, a \in {"Root.get_user_teams", "User.get_teams"}}
    \cup {[NewConsumer("find_domain", t) EXCEPT !.accessor = "User.get_domains"] :
             t \in TeamNames}
    \cup {[NewConsumer("collect", "") EXCEPT !.accessor = a] : a \in Accessors}

\* tests/test_document.py 69-75: test = list(document.paginate()).
\* One iteration of list(): next() on the generator, keep what it yields.
ListPaginate ==
    /\ consumer.mode = "list"
    /\ consumer.state = "running"
    /\ \E status \in FetchStatuses :
          LET r == parse_response_next(pages, pg, status)
          IN  /\ pg' = r.gen
              /\ trace' = Log(trace, <<Event("next", 0)>> \o r.events)
              /\ consumer' =
                    CASE r.gen.state = "finished" ->
                            [consumer EXCEPT !.state = "returned"]
                      [] r.gen.state = "raised" ->
                            [consumer EXCEPT !.state = "raised",
                                             !.err = Some("ConnectionError")]
                      [] OTHER -> consumer
    /\ UNCHANGED <<now, authVars, clientVars, pages, finVars, docVars, sampleVars>>

\* index of the first team of the list called name, None without one
FirstMatch(teams, name) ==
    LET hits == {i \in 1..Len(teams) : teams[i] = name}
    IN  IF hits = {} THEN None
        ELSE Some(CHOOSE i \in hits : \A j \in hits : i <= j)

\* One document's worth of an accessor's iteration: whether it stops, raises
\* or yields the items of the next document.
\* usi.py 51-74 get_user_teams, 95-131 get_user_submissions, 590-621
\* Team.get_submissions: return when the collection is not in _embedded.
\* usi.py 918-970 get_samples: return when '_embedded' is not in the data.
\* usi.py 341-361 User.get_teams, 972-993 get_validation_results: no test.
\* usi.py 382-400 User.get_domains: the items of the one response, unpaged.
accessor_next(accessor, g, gen, started, status) ==
    LET Stop == [kind |-> "stop", items |-> <<>>, err |-> None]
        Fail(e) == [kind |-> "raise", items |-> <<>>, err |-> Some(e)]
        Items(l) == [kind |-> "items", items |-> l, err |-> None]
        first == Page(g, gen.response)
    IN  IF accessor = "User.get_domains"
        THEN [gen |-> gen, events |-> <<>>,
              out |-> IF started THEN Stop
                      ELSE Items(IF first.teams = None THEN <<>>
                                 ELSE Val(first.teams))]
        ELSE IF /\ gen.state = "created"
                /\ \/ Guard(accessor) = "collection" /\ first.teams = None
                   \/ Guard(accessor) = "embedded" /\ g.bare
        THEN [gen |-> gen, events |-> <<>>, out |-> Stop]
        ELSE LET r == parse_response_next(g, gen, status)
             IN  [gen |-> r.gen,
                  events |-> <<Event("next", 0)>> \o r.events,
                  out |-> IF r.gen.state = "raised"
                          THEN Fail("ConnectionError")
                          ELSE IF r.gen.state = "finished" THEN Stop
                          ELSE IF Val(r.gen.data).teams = None
                          THEN \* document._embedded[<collection>]
                               Fail("KeyError")
                          ELSE Items(Val(Val(r.gen.data).teams))]

\* usi.py 76-93 Root.get_team_by_name, 363-380 User.get_team_by_name,
\* 402-421 User.get_domain_by_name.  One round of the loop over the
\* accessor: compare the names of the next document's items and return at
\* the first equal one; NameError when the accessor is exhausted.
get_team_by_name(g, gen, cons, status) ==
    LET r == accessor_next(cons.accessor, g, gen, cons.started, status)
        page == IF r.gen.data = None THEN gen.response
                ELSE Val(r.gen.data).self
        Out(c) == [gen |-> r.gen, events |-> r.events, cons |-> c]
    IN  CASE r.out.kind = "raise" ->
                Out([cons EXCEPT !.state = "raised", !.err = r.out.err])
          [] r.out.kind = "stop" ->
                Out([cons EXCEPT !.state = "raised",
                                 !.err = Some("NameError"),
                                 !.msg = Some(cons.name)])
          [] OTHER ->
                LET hit == FirstMatch(r.out.items, cons.name)
                IN  IF hit # None
                    THEN Out([cons EXCEPT
                                !.state = "returned",
                                !.found = Some(<<page, Val(hit)>>)])
                    ELSE Out([cons EXCEPT !.started = TRUE])

GetTeamByName ==
    /\ consumer.mode \in {"find", "find_domain"}
    /\ consumer.state = "running"
    /\ \E status \in FetchStatuses :
          LET r == get_team_by_name(pages, pg, consumer, status)
          IN  /\ pg' = r.gen
              /\ trace' = Log(trace, r.events)
              /\ consumer' = r.cons
    /\ UNCHANGED <<now, authVars, clientVars, pages, finVars, docVars, sampleVars>>

\* list(accessor()) for a collection accessor: one document's worth of it
CollectAll ==
    /\ consumer.mode = "collect"
    /\ consumer.state = "running"
    /\ \E status \in FetchStatuses :
          LET r == accessor_next(consumer.accessor, pages, pg,
                                 consumer.started, status)
          IN  /\ pg' = r.gen
              /\ trace' = Log(trace, r.events)
              /\ consumer' =
                    CASE r.out.kind = "raise" ->
                            [consumer EXCEPT !.state = "raised",
                                             !.err = r.out.err]
                      [] r.out.kind = "stop" ->
                            [consumer EXCEPT !.state = "returned"]
                      [] OTHER ->
                            [consumer EXCEPT
                               !.started = TRUE,
                               !.nonempty = @ \/ r.out.items # <<>>]
    /\ UNCHANGED <<now, authVars, clientVars, pages, finVars, docVars, sampleVars>>

(***************************************************************************)
(* Submission.finalize (usi.py 1054-1103) as the sequence of requests it   *)
(* sends, with the remote validation service free to move between them.    *)
(***************************************************************************)
Databanks == {"Ena", "Biosamples"}

\* a validation result: validationStatus and the databanks whose
\* overallValidationOutcomeByAuthor is 'Error'
ValidationResults ==
    {[validationStatus |-> "Pending", errors |-> {}]} \cup
    [validationStatus : {"Complete"}, errors : SUBSET Databanks]

Remotes ==
    UNION {[ready : BOOLEAN, status : {"Draft"},
            validations : [1..k -> ValidationResults]] : k \in 0..MaxSamples}

IgnoreLists == {{}, {"Ena"}, Databanks}

RequestStatuses == {200, 500}

NewFinalize ==
    [pc |-> "idle", ignorelist |-> {}, ready |-> None, statuses |-> None,
     seen |-> None, errors |-> None, sent |-> <<>>, err |-> None]

Range(f) == {f[i] : i \in DOMAIN f}

\* A variant that reports no error whatever the outcomes are.
ValidationResult_has_errors_never(v, ignorelist) == FALSE

\* usi.py 1284-1301 ValidationResult.has_errors
ValidationResult_has_errors(v, ignorelist) ==
    \E key \in v.errors : key \notin ignorelist

\* usi.py 828-852: True iff the document read has 'statusDescriptions'
check_ready(r) == r.ready

\* usi.py 995-1008: the keys of the Counter of validationStatus values
get_status(r) == {v.validationStatus : v \in Range(r.validations)}

\* collections.Counter(items): the number of times each item occurs
Counter(items) ==
    [x \in Range(items) |-> Cardinality({i \in DOMAIN items : items[i] = x})]

\* A variant that counts an 'Error' in an ignored databank as well.
has_errors_all(r, ignorelist) ==
    Counter([i \in DOMAIN r.validations |->
                ValidationResult_has_errors(r.validations[i], {})])

\* usi.py 1027-1033: the Counter of has_errors over the validation results
has_errors(r, ignorelist) ==
    Counter([i \in DOMAIN r.validations |->
                ValidationResult_has_errors(r.validations[i], ignorelist)])

FinRaise(kind) == [fin EXCEPT !.pc = "raised", !.err = Some(kind)]

\* a request of finalize that the service answers with another status
\* than the expected one raises out of finalize
FinRequest(pc, status, then) ==
    /\ fin.pc = pc
    /\ fin' = IF status = 200 THEN then ELSE FinRaise("ConnectionError")

\* submission.finalize(ignorelist) is called
FinalizeCall ==
    /\ fin.pc = "idle"
    /\ \E ignorelist \in IgnoreLists :
          fin' = [fin EXCEPT !.pc = "check_ready", !.ignorelist = ignorelist]
    /\ UNCHANGED <<now, authVars, clientVars, pageVars, remote, docVars, sampleVars>>

\* usi.py 1065-1066: if not self.check_ready(): raise NotReadyError
FinalizeCheckReady ==
    /\ \E status \in RequestStatuses :
          FinRequest("check_ready", status,
              IF check_ready(remote)
              THEN [fin EXCEPT !.pc = "get_status", !.ready = Some(TRUE)]
              ELSE [fin EXCEPT !.pc = "raised", !.ready = Some(FALSE),
                               !.err = Some("NotReadyError")])
    /\ UNCHANGED <<now, authVars, clientVars, pageVars, remote, docVars, sampleVars>>

\* usi.py 1023-1025: if 'Pending' in self.get_status(): raise NotReadyError
FinalizeGetStatus ==
    /\ \E status \in RequestStatuses :
          FinRequest("get_status", status,
              LET statuses == get_status(remote)
              IN  IF "Pending" \in statuses
                  THEN [fin EXCEPT !.pc = "raised",
                                   !.statuses = Some(statuses),
                                   !.err = Some("NotReadyError")]
                  ELSE [fin EXCEPT !.pc = "has_errors",
                                   !.statuses = Some(statuses)])
    /\ UNCHANGED <<now, authVars, clientVars, pageVars, remote, docVars, sampleVars>>

\* usi.py 1027-1033 and 1069-1070: the validation results are read again;
\* if True in self.has_errors(ignorelist): raise USIDataError
FinalizeHasErrors ==
    /\ \E status \in RequestStatuses :
          FinRequest("has_errors", status,
              LET errors == has_errors(remote, fin.ignorelist)
                  seen == remote.validations
              IN  IF TRUE \in DOMAIN errors
                  THEN [fin EXCEPT !.pc = "raised", !.seen = Some(seen),
                                   !.errors = Some(errors),
                                   !.err = Some("USIDataError")]
                  ELSE [fin EXCEPT !.pc = "reload", !.seen = Some(seen),
                                   !.errors = Some(errors)])
    /\ UNCHANGED <<now, authVars, clientVars, pageVars, remote, docVars, sampleVars>>

\* usi.py 1073: self.reload() (follow_self_url, then update_status)
FinalizeReload ==
    /\ \E status \in RequestStatuses :
          FinRequest("reload", status, [fin EXCEPT !.pc = "follow_tag"])
    /\ UNCHANGED <<now, authVars, clientVars, pageVars, remote, docVars, sampleVars>>

\* usi.py 1075: document = self.follow_tag('submissionStatus')
FinalizeFollowTag ==
    /\ \E status \in RequestStatuses :
          FinRequest("follow_tag", status, [fin EXCEPT !.pc = "put"])
    /\ UNCHANGED <<now, authVars, clientVars, pageVars, remote, docVars, sampleVars>>

\* usi.py 1086-1089: self.put(url, payload={'status': 'Submitted'}, ...)
FinalizePut ==
    /\ fin.pc = "put"
    /\ \E status \in RequestStatuses :
          LET payload == [status |-> "Submitted"]
              sent == Append(fin.sent, payload)
          IN  IF status = 200
              THEN /\ fin' = [fin EXCEPT !.pc = "update_status",
                                         !.sent = sent]
                   /\ remote' = [remote EXCEPT !.status = payload.status]
              ELSE /\ fin' = [fin EXCEPT !.pc = "raised", !.sent = sent,
                                         !.err = Some("ConnectionError")]
                   /\ UNCHANGED remote
    /\ UNCHANGED <<now, authVars, clientVars, pageVars, docVars, sampleVars>>

\* usi.py 1101-1103: self.update_status(); return document
FinalizeUpdateStatus ==
    /\ \E status \in RequestStatuses :
          FinRequest("update_status", status, [fin EXCEPT !.pc = "returned"])
    /\ UNCHANGED <<now, authVars, clientVars, pageVars, remote, docVars, sampleVars>>

\* The validation service works on its own: while finalize runs, the
\* readiness of the submission or one validation result changes.
RemoteChange ==
    /\ fin.pc \notin {"idle", "raised", "returned"}
    /\ \/ remote' = [remote EXCEPT !.ready = ~remote.ready]
       \/ \E i \in DOMAIN remote.validations, v \in ValidationResults :
             /\ v # remote.validations[i]
             /\ remote' = [remote EXCEPT !.validations[i] = v]
    /\ UNCHANGED <<now, authVars, clientVars, pageVars, fin, docVars, sampleVars>>

(***************************************************************************)
(* Documents: client.py class Document (read_data, follow_url, clean_url,  *)
(* follow_self_url) and the read_data of Submission and Sample in usi.py.  *)
(* A URL is a string, held as the sequence of its pieces: path segments,   *)
(* "/" and the pieces of the template marker.  An attribute holds None or  *)
(* Some(value); a dictionary is a function from its keys.                  *)
(***************************************************************************)
\* the string "{?projection}"
Marker == <<"{?", "projection", "}">>

SiteUrls == {<<"api", "/", "s1">>, <<"s1">>}

Tags == {"self", "contents", "submissionStatus"}

Kinds == {"Document", "Submission", "Sample"}

\* the bodies the service can answer a GET of url u with: '_links' (an
\* attribute every Document has) absent, or with a 'self' href that is u or
\* u followed by the marker; 'alias' (an attribute no Document has) or not;
\* and one body with a key that is the name of an attribute of every Client
Bodies(u) ==
    LET Dict(c) == [k \in {k \in DOMAIN c : c[k] # None} |-> Val(c[k])]
        links == {None,
                  Some("self" :> u),
                  Some("self" :> u \o Marker),
                  Some(("self" :> u) @@ ("contents" :> u \o <<"/", "contents">>))}
    IN  {Dict(c) : c \in [_links : links, alias : {None, Some(<<"x">>)}]}
        \cup {("_links" :> ("self" :> u)) @@ ("last_status_code" :> 0)}

Sites == UNION {[url : {u}, body : Bodies(u)] : u \in SiteUrls}

\* str.replace(old, ""): the occurrences of old found in one scan from the
\* left are dropped; what is left is not scanned again
RECURSIVE replace(_, _)
replace(s, old) ==
    IF Len(s) < Len(old) THEN s
    ELSE IF SubSeq(s, 1, Len(old)) = old
         THEN replace(SubSeq(s, Len(old) + 1, Len(s)), old)
         ELSE <<Head(s)>> \o replace(Tail(s), old)

\* client.py 310-326: url.replace("{?projection}", "")
clean_url(url) == replace(url, Marker)

\* href.split("/")[-1]
LastSegment(url) ==
    LET slashes == {i \in 1..Len(url) : url[i] = "/"}
        last == IF slashes = {} THEN 0
                ELSE CHOOSE i \in slashes : \A j \in slashes : j <= i
    IN  SubSeq(url, last + 1, Len(url))

\* what a call of a method of the object did: the exception it raised, the
\* URLs it requested, whether the service changed the resource since, and
\* whether it repeats a call that succeeded with the resource unchanged
NewDocCall(op) ==
    [op |-> op, err |-> None, sent |-> <<>>, moved |-> FALSE,
     force |-> FALSE, tag |-> "", again |-> FALSE]

Repeats(d, op) == d.call.op = op /\ d.call.err = None /\ ~d.call.moved

\* Client.__init__ 56-58 and Document.__init__ 226-235
NewDocument(kind) ==
    [kind |-> kind,
     attrs |-> [k \in {"_links", "name", "data", "last_response",
                       "last_status_code"} |->
                   IF k \in {"_links", "data"} THEN Some(<<>>) ELSE None],
     call |-> NewDocCall("init")]

\* A variant of read_data that puts the attributes the body does not name
\* back to what a new object has.
Document_read_data_reset(attrs, data, force) ==
    LET set == {k \in DOMAIN data : k \in DOMAIN attrs \/ force}
        updated == [k \in DOMAIN attrs \cup set |->
                       IF k \in set THEN Some(data[k])
                       ELSE IF k = "_links" THEN Some(<<>>) ELSE None]
    IN  [updated EXCEPT !["data"] = Some(data)]

\* A variant of read_data that sets every key whatever force is.
Document_read_data_forced(attrs, data, force) ==
    [k \in DOMAIN attrs \cup DOMAIN data |->
        IF k = "data" THEN Some(data)
        ELSE IF k \in DOMAIN data THEN Some(data[k]) ELSE attrs[k]]

\* client.py 387-423 (document.py 47-83): read_data and __update_key.
\* A key is set when the object has the attribute or force is true.
Document_read_data(attrs, data, force) ==
    LET set == {k \in DOMAIN data : k \in DOMAIN attrs \/ force}
        updated == [k \in DOMAIN attrs \cup set |->
                       IF k \in set THEN Some(data[k]) ELSE attrs[k]]
    IN  [updated EXCEPT !["data"] = Some(data)]

\* usi.py 803-826 Submission.read_data and 1171-1187 Sample.read_data:
\* Document.read_data, then the name is taken from the 'self' link
read_data(kind, attrs, data, force) ==
    LET a == Document_read_data(attrs, data, force)
        links == Val(a["_links"])
    IN  IF kind = "Document" \/ "self" \notin DOMAIN links
        THEN a
        ELSE LET name == LastSegment(links["self"])
             IN  [a EXCEPT !["name"] =
                     Some(IF kind = "Submission" THEN clean_url(name)
                          ELSE name)]

\* self.last_response = response; self.last_status_code = status
Recorded(attrs, url, status) ==
    [attrs EXCEPT !["last_response"] = Some([status |-> status, url |-> url]),
                  !["last_status_code"] = Some(status)]

\* A variant of follow_url that requests a default URL for a missing tag.
follow_tag_default(d, tag, status) ==
    LET links == Val(d.attrs["_links"])
        url == IF tag \in DOMAIN links THEN links[tag] ELSE <<>>
    IN  [d EXCEPT !.attrs = Recorded(d.attrs, url, status),
                  !.call = [NewDocCall("follow_url") EXCEPT
                               !.tag = tag, !.sent = <<url>>,
                               !.err = IF tag \in DOMAIN links THEN None
                                       ELSE Some("KeyError")]]

\* client.py 274-308 Document.follow_url(tag): self._links[tag]['href'],
\* then Client.follow_url; the new document it returns is another object
follow_tag(d, tag, status) ==
    LET links == Val(d.attrs["_links"])
    IN  IF tag \notin DOMAIN links
        THEN [d EXCEPT !.call = [NewDocCall("follow_url") EXCEPT
                                    !.tag = tag, !.err = Some("KeyError")]]
        ELSE LET url == links[tag]
             IN  [d EXCEPT
                    !.attrs = Recorded(d.attrs, url, status),
                    !.call = [NewDocCall("follow_url") EXCEPT
                                 !.tag = tag, !.sent = <<url>>,
                                 !.err = IF status # 200
                                         THEN Some("ConnectionError")
                                         ELSE None]]

\* A variant of follow_self_url that reads the body in permissive mode.
Document_follow_self_url_forced(d, st, status) ==
    LET links == Val(d.attrs["_links"])
    IN  IF "self" \notin DOMAIN links
        THEN [d EXCEPT !.call = [NewDocCall("follow_self_url") EXCEPT
                                    !.err = Some("KeyError")]]
        ELSE LET url == links["self"]
                 code == IF url = st.url THEN status ELSE 404
                 stored == Recorded(d.attrs, url, code)
             IN  [d EXCEPT
                    !.attrs = IF code # 200 THEN stored
                              ELSE [k \in DOMAIN stored \cup {"reloads"} |->
                                       IF k = "reloads"
                                       THEN Some(d.call.op)
                                       ELSE Recorded(read_data(d.kind, stored,
                                                st.body, TRUE), url, code)[k]],
                    !.call = [NewDocCall("follow_self_url") EXCEPT
                                 !.sent = <<url>>,
                                 !.again = Repeats(d, "follow_self_url"),
                                 !.err = IF code # 200
                                         THEN Some("ConnectionError")
                                         ELSE None]]

\* client.py 328-357 Document.follow_self_url: the 'self' href is cleaned,
\* requested and, on a 200, parsed into the object itself (strict mode);
\* last_response and last_status_code are assigned again after the parse.
\* The service answers the URL of its resource and no other.
Document_follow_self_url(d, st, status) ==
    LET links == Val(d.attrs["_links"])
    IN  IF "self" \notin DOMAIN links
        THEN [d EXCEPT !.call = [NewDocCall("follow_self_url") EXCEPT
                                    !.err = Some("KeyError")]]
        ELSE LET url == clean_url(links["self"])
                 code == IF url = st.url THEN status ELSE 404
                 stored == Recorded(d.attrs, url, code)
             IN  [d EXCEPT
                    !.attrs = IF code # 200 THEN stored
                              ELSE Recorded(read_data(d.kind, stored, st.body,
                                                      FALSE), url, code),
                    !.call = [NewDocCall("follow_self_url") EXCEPT
                                 !.sent = <<url>>,
                                 !.again = Repeats(d, "follow_self_url"),
                                 !.err = IF code # 200
                                         THEN Some("ConnectionError")
                                         ELSE None]]

\* document.read_data(data, force) with a body of the resource
DocumentReadData ==
    /\ \E data \in Bodies(site.url), force \in BOOLEAN :
          doc' = [doc EXCEPT
                    !.attrs = read_data(doc.kind, doc.attrs, data, force),
                    !.call = [NewDocCall("read_data") EXCEPT !.force = force]]
    /\ UNCHANGED <<now, authVars, clientVars, pageVars, finVars, site, sampleVars>>

\* document.follow_url(tag)
DocumentFollowUrl ==
    /\ \E tag \in Tags, status \in {200, 404} :
          doc' = follow_tag(doc, tag, status)
    /\ UNCHANGED <<now, authVars, clientVars, pageVars, finVars, site, sampleVars>>

\* document.follow_self_url()
DocumentFollowSelfUrl ==
    /\ \E status \in {200, 500} :
          doc' = Document_follow_self_url(doc, site, status)
    /\ UNCHANGED <<now, authVars, clientVars, pageVars, finVars, site, sampleVars>>

\* the service changes the resource
SiteChange ==
    /\ \E body \in Bodies(site.url) :
          /\ body # site.body
          /\ site' = [site EXCEPT !.body = body]
    /\ doc' = [doc EXCEPT !.call.moved = TRUE]
    /\ UNCHANGED <<now, authVars, clientVars, pageVars, finVars, sampleVars>>

(***************************************************************************)
(* Sample data: usi.py check_relationship and check_releasedate, called by *)
(* Submission.create_sample and Sample.patch.  The caller's sample_data is *)
(* a dictionary object; under 'sampleRelationships' it refers to a list    *)
(* object, which refers to one dictionary object per relationship.  The    *)
(* heap holds these objects; "list" and 1..k are references.               *)
(***************************************************************************)
Teams == {"t1", "t2"}

Dates == {"d1", "d2"}

Relationships == [alias : {"r"}, team : {None} \cup {Some(t) : t \in Teams}]

\* the sample_data a caller can hold
Heaps ==
    UNION {[data : [releaseDate : {None} \cup {Some(d) : d \in Dates},
                    sampleRelationships : {Some("list")}],
            list : {[i \in 1..k |-> i]},
            objs : [1..k -> Relationships]] : k \in 0..MaxRelationships}
    \cup [data : [releaseDate : {None} \cup {Some(d) : d \in Dates},
                  sampleRelationships : {None}],
          list : {<<>>}, objs : {<<>>}]

NewHeap ==
    [data |-> [releaseDate |-> None, sampleRelationships |-> None],
     list |-> <<>>, objs |-> <<>>]

NoSampleCall ==
    [op |-> "none", team |-> None, today |-> None, status |-> None,
     before |-> None, payload |-> None]

\* the value of dictionary d with every reference followed: what
\* json.dumps(d) writes and what d == other compares
Deref(h, d) ==
    [releaseDate |-> d.releaseDate,
     sampleRelationships |->
        IF d.sampleRelationships = None THEN None
        ELSE Some([i \in 1..Len(h.list) |-> h.objs[h.list[i]]])]

\* copy.copy(d): a new dictionary object with the entries of d, references
\* included; the objects referred to are not copied
copy_copy(d) == [k \in DOMAIN d |-> d[k]]

\* usi.py 656-673 check_relationship: the loop assigns relationship['team']
\* in the dictionary objects the list refers to
check_relationship(h, sample_data, team) ==
    LET copied == copy_copy(sample_data)
    IN  IF copied.sampleRelationships = None
        THEN [heap |-> h, ret |-> copied]
        ELSE [heap |-> [h EXCEPT !.objs =
                          [i \in DOMAIN h.objs |->
                              IF h.objs[i].team = None
                              THEN [h.objs[i] EXCEPT !.team = Some(team)]
                              ELSE h.objs[i]]],
              ret |-> copied]

\* A variant that sets the release date whether or not one is given.
check_releasedate_always(sample_data, today) ==
    [copy_copy(sample_data) EXCEPT !.releaseDate = Some(today)]

\* usi.py 676-689 check_releasedate
check_releasedate(sample_data, today) ==
    LET copied == copy_copy(sample_data)
    IN  IF copied.releaseDate = None
        THEN [copied EXCEPT !.releaseDate = Some(today)]
        ELSE copied

\* usi.py 884-886 and 1209-1211: fixed_data, the payload of the request
fixed_data(h, team, today) ==
    LET r == check_relationship(h, h.data, team)
        fixed == check_releasedate(r.ret, today)
    IN  [heap |-> r.heap, payload |-> Deref(r.heap, fixed)]

SampleCall(op, statuses) ==
    /\ \E team \in Teams, today \in Dates, status \in statuses :
          LET r == fixed_data(heap, team, today)
          IN  /\ heap' = r.heap
              /\ smp' = [op |-> op, team |-> Some(team), today |-> Some(today),
                         status |-> Some(status),
                         before |-> Some(Deref(heap, heap.data)),
                         payload |-> Some(r.payload)]
    /\ UNCHANGED <<now, authVars, clientVars, pageVars, finVars, docVars>>

\* submission.create_sample(sample_data), usi.py 875-916: POST of fixed_data
SubmissionCreateSample == SampleCall("create_sample", {201, 500})

\* sample.patch(sample_data), usi.py 1205-1221: PATCH of fixed_data
SamplePatchData == SampleCall("patch", {200, 500})

(***************************************************************************)
(* usi.py Submission.get_samples: the samples of a submission, filtered by *)
(* validation status and by errors.  Sample i of the listing has           *)
(* validation result i of the submission.                                  *)
(***************************************************************************)
\* the values of the has_errors argument: None, True, False
ErrorFilters == {None, Some(TRUE), Some(FALSE)}

StatusFilters == {None, Some("Pending"), Some("Complete")}

\* usi.py 918-970: a sample is skipped when status is given and differs
\* from its validationStatus, or when has_errors is true and differs from
\* sample.has_errors(ignorelist); the rest are yielded in listing order
get_samples(r, status, errors, ignorelist) ==
    LET Skip(i) ==
            \/ /\ status # None
               /\ r.validations[i].validationStatus # Val(status)
            \/ /\ errors # None /\ Val(errors)
               /\ Val(errors) #
                     ValidationResult_has_errors(r.validations[i], ignorelist)
    IN  SelectSeq([i \in 1..Len(r.validations) |-> i], LAMBDA i : ~Skip(i))

\* list(submission.get_samples(status, has_errors, ignorelist))
SubmissionGetSamples ==
    /\ \E status \in StatusFilters, errors \in ErrorFilters,
          ignorelist \in IgnoreLists :
          smp' = [op |-> "get_samples", status |-> status,
                  has_errors |-> errors, ignorelist |-> ignorelist,
                  listing |-> remote.validations,
                  yielded |-> get_samples(remote, status, errors, ignorelist)]
    /\ UNCHANGED <<now, authVars, clientVars, pageVars, finVars, docVars, heap>>

(***************************************************************************)
(* Initial states and specifications.                                      *)
(***************************************************************************)
\* no pagination and no finalize under way
InitRest ==
    /\ pages = [n |-> 1, back |-> 0, teams |-> <<None>>, bare |-> FALSE]
    /\ pg = parse_response(1)
    /\ trace = <<>>
    /\ consumer = NewConsumer("list", "")
    /\ remote = [ready |-> FALSE, status |-> "Draft", validations |-> <<>>]
    /\ fin = NewFinalize
    /\ doc = NewDocument("Document")
    /\ site = [url |-> <<"s1">>, body |-> <<>>]
    /\ heap = NewHeap
    /\ smp = NoSampleCall

InitClients ==
    /\ clients = [c \in 1..MaxClients |-> None]
    /\ headers = DefaultHeaders
    /\ call = None
    /\ InitRest

InitAuth ==
    /\ now = 0
    /\ auth = NewAuth
    /\ answer = NoAnswer
    /\ InitClients

NextAuth == AuthLogin \/ AuthFromToken \/ AuthSetToken \/ IsExpired \/ Tick

vars == <<now, auth, answer, clients, headers, call, pageVars, finVars,
          docVars, sampleVars>>

SpecAuth == InitAuth /\ [][NextAuth]_vars

Init ==
    /\ now = 0
    /\ auth = NewAuth
    /\ answer = NoAnswer
    /\ InitClients

Next ==
    \/ ClientInit \/ ClientSetAuth \/ Elapse
    \/ Request \/ Post \/ Patch \/ Delete \/ Put

Spec == Init /\ [][Next]_vars

\* SpecStatus: one client, built from a fresh token, runs the operations
InitStatus ==
    /\ now = 0
    /\ auth = NewAuth
    /\ answer = NoAnswer
    /\ clients = [c \in ClientIds |->
                    IF c = 1
                    THEN Some([NewClient EXCEPT !.auth = Auth_token(GoodToken(1)).obj])
                    ELSE None]
    /\ headers = [DefaultHeaders EXCEPT
                     !.Authorization = Bearer(Auth_token(GoodToken(1)).obj)]
    /\ call = Some(NewCall("auth", 1, Auth_token(GoodToken(1)).obj))
    /\ InitRest

NextStatus ==
    \/ FollowUrl \/ FollowTag \/ FollowSelfUrl \/ ReadUrl
    \/ GetSubmissionByName \/ GetMyId \/ GetUserById
    \/ CreateTeam \/ AddUserToTeam \/ CreateSubmission \/ CreateSample
    \/ SubmissionDelete \/ SampleDelete \/ SamplePatch
    \/ RootGetSubmissionByName \/ TeamCreateSubmission
    \/ Elapse

SpecStatus == InitStatus /\ [][NextStatus]_vars

\* SpecPaginate: a generator over some paged collection and its consumer.
\* The consumer is a loop of straight-line code: it keeps taking steps.
InitPaginate ==
    /\ now = 0
    /\ auth = NewAuth
    /\ answer = NoAnswer
    /\ clients = [c \in 1..MaxClients |-> None]
    /\ headers = DefaultHeaders
    /\ call = None
    /\ pages \in PageGraphs
    /\ pg = parse_response(1)
    /\ trace = <<>>
    /\ consumer \in Consumers
    /\ remote = [ready |-> FALSE, status |-> "Draft", validations |-> <<>>]
    /\ fin = NewFinalize
    /\ doc = NewDocument("Document")
    /\ site = [url |-> <<"s1">>, body |-> <<>>]
    /\ heap = NewHeap
    /\ smp = NoSampleCall

NextPaginate == ListPaginate \/ GetTeamByName \/ CollectAll

SpecPaginate ==
    InitPaginate /\ [][NextPaginate]_vars /\ WF_vars(NextPaginate)

\* SpecFinalize: one execution of Submission.finalize on some submission
InitFinalize ==
    /\ now = 0
    /\ auth = NewAuth
    /\ answer = NoAnswer
    /\ clients = [c \in 1..MaxClients |-> None]
    /\ headers = DefaultHeaders
    /\ call = None
    /\ pages = [n |-> 1, back |-> 0, teams |-> <<None>>, bare |-> FALSE]
    /\ pg = parse_response(1)
    /\ trace = <<>>
    /\ consumer = NewConsumer("list", "")
    /\ remote \in Remotes
    /\ fin = NewFinalize
    /\ doc = NewDocument("Document")
    /\ site = [url |-> <<"s1">>, body |-> <<>>]
    /\ heap = NewHeap
    /\ smp = NoSampleCall

NextFinalize ==
    \/ FinalizeCall \/ FinalizeCheckReady \/ FinalizeGetStatus
    \/ FinalizeHasErrors \/ FinalizeReload \/ FinalizeFollowTag
    \/ FinalizePut \/ FinalizeUpdateStatus \/ RemoteChange

SpecFinalize == InitFinalize /\ [][NextFinalize]_vars

\* SpecDocument: one object of one of the classes and the resource it reads
InitDocument ==
    /\ now = 0
    /\ auth = NewAuth
    /\ answer = NoAnswer
    /\ clients = [c \in 1..MaxClients |-> None]
    /\ headers = DefaultHeaders
    /\ call = None
    /\ pages = [n |-> 1, back |-> 0, teams |-> <<None>>, bare |-> FALSE]
    /\ pg = parse_response(1)
    /\ trace = <<>>
    /\ consumer = NewConsumer("list", "")
    /\ remote = [ready |-> FALSE, status |-> "Draft", validations |-> <<>>]
    /\ fin = NewFinalize
    /\ doc \in {NewDocument(kind) : kind \in Kinds}
    /\ site \in Sites
    /\ heap = NewHeap
    /\ smp = NoSampleCall

NextDocument ==
    DocumentReadData \/ DocumentFollowUrl \/ DocumentFollowSelfUrl \/ SiteChange

SpecDocument == InitDocument /\ [][NextDocument]_vars

\* SpecGetSamples: a submission with its validation results, listed
NextGetSamples == SubmissionGetSamples

SpecGetSamples == InitFinalize /\ [][NextGetSamples]_vars

\* SpecSample: a caller's sample_data passed to create_sample and patch
InitSample ==
    /\ now = 0
    /\ auth = NewAuth
    /\ answer = NoAnswer
    /\ clients = [c \in 1..MaxClients |-> None]
    /\ headers = DefaultHeaders
    /\ call = None
    /\ pages = [n |-> 1, back |-> 0, teams |-> <<None>>, bare |-> FALSE]
    /\ pg = parse_response(1)
    /\ trace = <<>>
    /\ consumer = NewConsumer("list", "")
    /\ remote = [ready |-> FALSE, status |-> "Draft", validations |-> <<>>]
    /\ fin = NewFinalize
    /\ doc = NewDocument("Document")
    /\ site = [url |-> <<"s1">>, body |-> <<>>]
    /\ heap \in Heaps
    /\ smp = NoSampleCall

NextSample == SubmissionCreateSample \/ SamplePatchData

SpecSample == InitSample /\ [][NextSample]_vars

(***************************************************************************)
(* Claims checked under SpecAuth.                                          *)
(***************************************************************************)

\* C4: is_expired() returns true exactly when the remaining time
\* (expire - now) is negative; with exactly 0 remaining it returns false.
\* The test days < 0 agrees with remaining < 0 for every remaining time,
\* also between minus one day and 0.
C4_ExpiredIffNegative ==
    answer.op = "is_expired" =>
        /\ Val(answer.expired) = (Val(answer.remaining) < 0)
        /\ (Val(answer.remaining) = 0 => Val(answer.expired) = FALSE)

\* is_expired() answered true for a token expired less than a day ago
C4_Witness ==
    /\ answer.op = "is_expired"
    /\ Val(answer.remaining) < 0
    /\ Val(answer.remaining) > -SecondsPerDay
    /\ Val(answer.expired) = TRUE

\* C6: for every non-200 reply of the auth endpoint, Auth(user, password)
\* raises an error whose message holds the reply's status and body text;
\* the body is not decoded as a token: token, claims, issued and expire
\* stay unset.
C6_LoginRejected ==
    (answer.op = "login" /\ Val(answer.status) # 200) =>
        /\ answer.err # NoError
        /\ Val(answer.err).msg[2] = Val(answer.status)
        /\ Val(answer.err).msg[3] = Val(answer.text)
        /\ auth.token = None
        /\ auth.claims = None
        /\ auth.issued = None
        /\ auth.expire = None

\* a 400 reply whose body would have decoded as a valid token
C6_Witness ==
    /\ answer.op = "login"
    /\ Val(answer.status) = 400
    /\ Val(answer.text) \in GoodTokens
    /\ answer.err # NoError
    /\ auth.token = None

\* C29: assigning Auth.token is all-or-nothing: when decoding the new
\* string fails (no JWT, or a JWT without 'iat' or 'exp'), token, header,
\* claims, issued and expire keep the values they had.
C29_FailedAssignKeepsAll ==
    [][(answer'.op = "set_token" /\ answer'.err # NoError) =>
          /\ auth'.token = auth.token
          /\ auth'.header = auth.header
          /\ auth'.claims = auth.claims
          /\ auth'.issued = auth.issued
          /\ auth'.expire = auth.expire]_vars

\* C30: the three Auth revisions (python_ebi_aap, pyEBIrest, pyUSIrest) built
\* from the same token string give, at the same clock value, the same
\* is_expired() result and the same string from the token getter.
C30_RevisionsAgree ==
    answer.op = "is_expired" =>
        LET r == Val(answer.revisions)
        IN /\ r.python_ebi_aap = r.pyEBIrest
           /\ r.pyEBIrest = r.pyUSIrest

(***************************************************************************)
(* Claims checked under Spec.                                              *)
(***************************************************************************)

\* C1: when the client's token is expired, each of the five verb calls
\* raises the token-expired error and sends no HTTP request; a request is
\* sent only when is_expired() answered false just before it.
C1_ExpiredSendsNothing ==
    (call # None /\ Val(call).op \in VerbOps) =>
        /\ Val(Val(call).expired) =>
              /\ Val(call).err = Raise("RuntimeError", TokenExpiredMsg)
              /\ Val(call).wire = <<>>
        /\ Val(call).wire # <<>> => ~Val(Val(call).expired)

\* a verb was called on a client whose token is expired
C1_Witness ==
    /\ call # None
    /\ Val(call).op \in VerbOps
    /\ Val(Val(call).expired)
    /\ Val(call).err # NoError
    /\ Val(call).wire = <<>>

\* C5: every request a client sends with its default headers carries
\* 'Authorization: Bearer <that client's own token>', whatever other
\* clients were constructed or re-authenticated before.
C5_OwnTokenSent ==
    (call # None /\ Val(call).op \in VerbOps /\ Val(call).default) =>
        \A i \in 1..Len(Val(call).wire) :
            Val(call).wire[i].headers.Authorization = Bearer(Val(call).auth)

\* C12: a verb call given header overrides h sends the client's default
\* headers with h merged on top: every key h does not set is sent with its
\* default value, so Accept, User-Agent and Authorization are never dropped.
C12_OverridesMerged ==
    (call # None /\ Val(call).op \in VerbOps /\ Val(call).arg # None) =>
        \A i \in 1..Len(Val(call).wire) :
            LET h == Val(Val(call).arg)
                sent == Val(call).wire[i].headers
            IN  /\ \A k \in DOMAIN headers :
                      sent[k] = IF h[k] # None THEN h[k] ELSE headers[k]
                /\ (h.Authorization = None =>
                       sent.Authorization = headers.Authorization)

\* C21: an Auth built from token string t keeps t as its token (with the
\* claims decoded from it), and every request of a Client built on that
\* Auth carries 'Authorization: Bearer t'.
C21_TokenKeptAndSent ==
    /\ \A c \in ClientIds :
          clients[c] # None =>
             LET a == Val(clients[c]).auth
             IN  /\ a.token # None
                 /\ a.claims = Some(Val(a.token).id)
                 /\ a.expire = Val(a.token).exp
    /\ (call # None /\ Val(call).op \in VerbOps) =>
          \A i \in 1..Len(Val(call).wire) :
              Val(call).wire[i].headers.Authorization = Bearer(Val(call).auth)

(***************************************************************************)
(* Claims checked under SpecStatus.                                        *)
(***************************************************************************)
\* exceptions.py: USIConnectionError derives from ConnectionError;
\* USIDataError derives from Exception alone
IsConnectionErrorClass(kind) == kind \in {"ConnectionError", "USIConnectionError"}
IsDataErrorClass(kind) == kind = "USIDataError"

\* C2: a GET answered with status s raises the ConnectionError-class error
\* for s in 500..599, the DataError-class error for s in 400..499, and for
\* any other s different from 200 a generic mismatch error that is neither;
\* so a 4xx and a 5xx can be told apart.
C2_StatusClasses ==
    (/\ call # None
     /\ Val(call).op \in GetOps
     /\ Len(Val(call).replies) = 1
     /\ Val(call).replies[1].status # 200) =>
        LET s == Val(call).replies[1].status
            e == Val(call).err
        IN /\ e # NoError
           /\ (s \in 500..599 => IsConnectionErrorClass(Val(e).kind))
           /\ (s \in 400..499 => IsDataErrorClass(Val(e).kind))
           /\ (s \notin 400..599 =>
                  /\ ~IsConnectionErrorClass(Val(e).kind)
                  /\ ~IsDataErrorClass(Val(e).kind))

\* C3: an operation returns normally only when every reply it received
\* had the status its verb expects (GET 200, POST 201, PATCH 200, PUT 200,
\* DELETE 204); with any other status it raises and returns no object.
C3_ExpectedStatusOnly ==
    (call # None /\ Val(call).op \in ResourceOps) =>
        \A i \in 1..Len(Val(call).replies) :
            Val(call).replies[i].status # ExpectedStatus(Val(call).wire[i].verb)
                => (Val(call).err # NoError /\ ~Val(call).obj)


\* the operations whose every request is made by the object they are called
\* on, which therefore keeps the reply in its own attributes
OwnReplyOps ==
    {"follow_url", "Document.follow_url", "follow_self_url", "get_my_id",
     "get_user_by_id", "create_team", "add_user_to_team", "create_sample",
     "Submission.delete", "Sample.delete"}

\* C11: after an operation that received a response, whether it returned or
\* raised because of the status, last_response is that response and
\* last_status_code its status; so too for Sample.delete and for a failed
\* GET inside get_submission_by_name.
C11_LastResponseRecorded ==
    (/\ call # None
     /\ Val(call).replies # <<>>
     /\ \/ Val(call).op \in OwnReplyOps
        \/ Val(call).op = "get_submission_by_name"
              /\ Len(Val(call).replies) = 1) =>
        LET cl == Val(clients[Val(call).client])
            reply == Val(call).replies[Len(Val(call).replies)]
        IN  /\ cl.last_response = Some(reply)
            /\ cl.last_status_code = Some(reply.status)

\* C19: Root.get_submission_by_name(n) returns a Submission only on a 200
\* reply; a 404 raises NameError naming n, any other 4xx USIDataError and a
\* 5xx USIConnectionError.
C19_SubmissionByNameErrors ==
    (/\ call # None
     /\ Val(call).op = "Root.get_submission_by_name"
     /\ Val(call).replies # <<>>) =>
        LET s == Val(call).replies[1].status
            e == Val(call).err
        IN  /\ Val(call).obj => s = 200
            /\ s # 200 => e # NoError
            /\ s = 404 => e = Raise("NameError", Val(Val(call).arg))
            /\ (s \in 400..499 /\ s # 404) => Val(e).kind = "USIDataError"
            /\ s \in 500..599 => Val(e).kind = "USIConnectionError"

C19_Witness ==
    /\ call # None
    /\ Val(call).op = "Root.get_submission_by_name"
    /\ Val(call).replies # <<>>
    /\ Val(call).replies[1].status = 401
    /\ Val(call).err = Raise("USIDataError", 401)
    /\ Val(call).arg = Some("s2")

\* C22: Team.create_submission sends, in this order, a POST to the
\* 'submissions:create' link, a GET of the new submission's 'self' link and
\* a GET of its 'submissionStatus' link; the Submission it returns has the
\* status of the last reply, and none is returned when a step fails.
C22_CreateThenReload ==
    (call # None /\ Val(call).op = "Team.create_submission") =>
        LET w == Val(call).wire
            order == <<[verb |-> "POST", link |-> "submissions:create"],
                       [verb |-> "GET", link |-> "self"],
                       [verb |-> "GET", link |-> "submissionStatus"]>>
            expect == <<201, 200, 200>>
            ok == /\ Len(Val(call).replies) = 3
                  /\ \A i \in 1..3 : Val(call).replies[i].status = expect[i]
        IN  /\ Len(w) <= 3
            /\ \A i \in 1..Len(w) :
                   [verb |-> w[i].verb, link |-> w[i].link] = order[i]
            /\ Val(call).obj <=> ok
            /\ Val(call).obj =>
                   Val(call).value = Some(Val(call).replies[3].value)
            /\ ~Val(call).obj =>
                   (Val(call).value = None /\ Val(call).err # NoError)

C22_Witness ==
    /\ call # None
    /\ Val(call).op = "Team.create_submission"
    /\ Val(call).obj
    /\ Len(Val(call).wire) = 3
    /\ Val(call).replies[1].value = "Draft"
    /\ Val(call).value = Some("Submitted")

(***************************************************************************)
(* Claims checked under SpecDocument.                                      *)
(***************************************************************************)
\* C13: following a tag that is not in the document's links raises KeyError
\* before any request is sent and leaves the links, the attributes,
\* last_response and last_status_code as they were.
C13_MissingTagRaisesFirst ==
    [][(/\ doc'.call.op = "follow_url"
        /\ ~doc'.call.moved
        /\ doc'.call.tag \notin DOMAIN Val(doc.attrs["_links"])) =>
           /\ doc'.call.err = Some("KeyError")
           /\ doc'.call.sent = <<>>
           /\ doc'.attrs = doc.attrs]_vars

C13_Witness ==
    /\ doc.call.op = "follow_url"
    /\ doc.call.err = Some("KeyError")
    /\ doc.call.tag = "submissionStatus"
    /\ "self" \in DOMAIN Val(doc.attrs["_links"])
    /\ doc.attrs["last_status_code"] = Some(200)

\* C15: a Submission or a Sample that parsed a body with a 'self' link has
\* for name the last '/'-separated segment of the self href, with the
\* '{?projection}' marker removed.
C15_NameIsLastSegment ==
    (/\ doc.call.op = "read_data"
     /\ doc.kind \in {"Submission", "Sample"}
     /\ "_links" \in DOMAIN Val(doc.attrs["data"])
     /\ "self" \in DOMAIN Val(doc.attrs["data"])["_links"]) =>
        doc.attrs["name"] =
            Some(clean_url(LastSegment(Val(doc.attrs["data"])["_links"]["self"])))

\* C16: read_data in strict mode leaves the object with exactly the
\* attributes it had, overwrites those the body names and keeps the other
\* keys only in the raw data; in permissive mode every key of the body
\* becomes an attribute.  (The name is set by Submission and Sample.)
C16_StrictKeepsAttributes ==
    [][(doc'.call.op = "read_data" /\ ~doc'.call.moved) =>
         LET data == Val(doc'.attrs["data"])
             own == IF doc.kind = "Document" THEN {"data"} ELSE {"data", "name"}
         IN  /\ doc'.attrs["data"] = Some(data)
             /\ \A k \in DOMAIN data \cap DOMAIN doc'.attrs :
                    k \notin own => doc'.attrs[k] = Some(data[k])
             /\ \A k \in DOMAIN doc.attrs \ (DOMAIN data \cup own) :
                    doc'.attrs[k] = doc.attrs[k]
             /\ IF doc'.call.force
                THEN DOMAIN doc'.attrs = DOMAIN doc.attrs \cup DOMAIN data
                ELSE DOMAIN doc'.attrs = DOMAIN doc.attrs]_vars

C16_Witness ==
    /\ doc.call.op = "read_data"
    /\ ~doc.call.force
    /\ "alias" \in DOMAIN Val(doc.attrs["data"])
    /\ "alias" \notin DOMAIN doc.attrs
    /\ "self" \in DOMAIN Val(doc.attrs["_links"])

C26_ParseKeepsClientState ==
    [][(doc'.call.op = "read_data" /\ ~doc'.call.moved) =>
          /\ doc'.attrs["last_response"] = doc.attrs["last_response"]
          /\ doc'.attrs["last_status_code"] = doc.attrs["last_status_code"]]_vars

\* C28: after a reload, every attribute whose key is missing from the new
\* response holds the value it had before (the name, which is derived from
\* the links, and the record of the response apart), and data is the new
\* body as a whole.
C28_ReloadKeepsMissingKeys ==
    [][(/\ doc'.call.op = "follow_self_url"
        /\ ~doc'.call.moved
        /\ doc'.call.sent # <<>>
        /\ doc'.call.err = None) =>
           /\ doc'.attrs["data"] = Some(site.body)
           /\ DOMAIN doc'.attrs = DOMAIN doc.attrs
           /\ \A k \in DOMAIN doc.attrs \
                    ({"data", "name", "last_response", "last_status_code"}
                        \cup DOMAIN site.body) :
                  doc'.attrs[k] = doc.attrs[k]
           /\ "_links" \notin DOMAIN site.body =>
                  doc'.attrs["name"] = doc.attrs["name"]]_vars

C28_Witness ==
    /\ doc.call.op = "follow_self_url"
    /\ doc.call.err = None
    /\ ~doc.call.moved
    /\ "_links" \notin DOMAIN site.body
    /\ "alias" \in DOMAIN doc.attrs
    /\ "alias" \notin DOMAIN site.body
    /\ doc.attrs["data"] = Some(site.body)
    /\ "self" \in DOMAIN Val(doc.attrs["_links"])

(***************************************************************************)
(* Claims checked under SpecPaginate.                                      *)
(***************************************************************************)
\* the pages of the events of one kind, oldest first
PagesOf(ev) ==
    LET sel == SelectSeq(trace, LAMBDA e : e.ev = ev)
    IN  [i \in 1..Len(sel) |-> sel[i].page]

\* the embedded collection of a page, empty when the page has none
Embedded(p) ==
    IF pages.teams[p] = None THEN <<>>
    ELSE LET teams == Val(pages.teams[p])
         IN  [i \in 1..Len(teams) |-> <<p, teams[i]>>]

RECURSIVE Concat(_)
Concat(ps) ==
    IF ps = <<>> THEN <<>> ELSE Embedded(Head(ps)) \o Concat(Tail(ps))

\* the result set the service holds: every page of the chain, in chain order
FullResult == Concat([k \in 1..pages.n |-> k])

Terminated == pg.state \in {"finished", "raised"}

\* C7: on a finite chain of n >= 1 pages, a pagination run to its end has
\* yielded exactly n documents in chain order, the first being the page it
\* was started on, and their embedded collections concatenated are the full
\* result set in order; with one page it yields exactly one document.
C7_ChainYieldsEveryPage ==
    (pages.back = 0 /\ pg.state = "finished") =>
        /\ Len(PagesOf("yield")) = pages.n
        /\ PagesOf("yield") = [k \in 1..pages.n |-> k]
        /\ PagesOf("yield")[1] = pg.response
        /\ Concat(PagesOf("yield")) = FullResult
        /\ (Page(pages, pg.response).next = None
               => PagesOf("yield") = <<pg.response>>)

C7_Witness ==
    /\ pages.back = 0
    /\ pages.n >= 2
    /\ pg.state = "finished"
    /\ consumer.mode = "list"
    /\ Len(FullResult) >= 2
    /\ Len(PagesOf("yield")) = pages.n

StopsAtLastPage ==
    \A i \in 1..Len(trace) :
        (trace[i].ev = "yield" /\ Page(pages, trace[i].page).next = None)
            => /\ \A j \in (i + 1)..Len(trace) : trace[j].ev = "next"
               /\ \A k \in 1..(i - 1) :
                     trace[k].ev = "yield"
                        => Page(pages, trace[k].page).next # None

C9_FetchedOnDemand ==
    /\ \A i \in 1..Len(trace) :
          trace[i].ev = "get" =>
             /\ i >= 3
             /\ trace[i - 1].ev = "next"
             /\ trace[i - 2].ev = "yield"
             /\ Page(pages, trace[i - 2].page).next = Some(trace[i].page)
    /\ (/\ consumer.mode = "find"
        /\ consumer.state = "returned"
        /\ consumer.found # None) =>
          /\ trace[Len(trace)] = Event("yield", Val(consumer.found)[1])
          /\ Len(PagesOf("get")) = Len(PagesOf("yield")) - 1

C9_Witness ==
    /\ consumer.mode = "find"
    /\ consumer.state = "returned"
    /\ consumer.found # None
    /\ Val(consumer.found)[1] = 2
    /\ Page(pages, 2).next # None
    /\ PagesOf("get") = <<2>>

\* C14: every collection accessor, read to its end on a response that has no
\* embedded entry for its collection (no '_embedded' key, or no collection
\* name inside it), yields zero items and raises nothing.
C14_EmptyCollectionYieldsNothing ==
    (/\ consumer.mode = "collect"
     /\ pages.n = 1 /\ pages.back = 0
     /\ pages.teams[1] = None
     /\ consumer.state # "running") =>
        /\ consumer.state = "returned"
        /\ consumer.err = None
        /\ ~consumer.nonempty

\* C18: a lookup by name over a complete (finite) listing returns the first
\* item of the listing, in listing order over all pages, whose name is the
\* one asked for, and raises NameError carrying that name exactly when the
\* listing has no such item; for Root.get_team_by_name,
\* User.get_team_by_name and User.get_domain_by_name alike.
C18_FirstMatchOrNotFound ==
    (/\ consumer.mode \in {"find", "find_domain"}
     /\ consumer.state # "running"
     /\ pages.back = 0
     /\ consumer.err # Some("ConnectionError")) =>
        LET listing == IF consumer.mode = "find_domain"
                       THEN Embedded(pg.response) ELSE FullResult
            hits == {i \in 1..Len(listing) : listing[i][2] = consumer.name}
        IN  IF hits = {}
            THEN /\ consumer.state = "raised"
                 /\ consumer.err = Some("NameError")
                 /\ consumer.msg = Some(consumer.name)
            ELSE /\ consumer.state = "returned"
                 /\ consumer.err = None
                 /\ consumer.found # None
                 /\ LET page == Val(consumer.found)[1]
                        idx == Val(consumer.found)[2]
                        at == Len(Concat([k \in 1..(page - 1) |-> k])) + idx
                    IN  /\ at \in hits
                        /\ \A i \in hits : at <= i

(***************************************************************************)
(* Claims checked under SpecFinalize.                                      *)
(***************************************************************************)
\* C10: the PUT of {'status': 'Submitted'} is sent only after check_ready
\* returned true and has_errors(ignorelist) reported no validation result
\* with an error outside the ignore-list; when finalize raises NotReadyError
\* or USIDataError no PUT has been sent.
C10_PutOnlyWhenClean ==
    /\ fin.sent # <<>> =>
          /\ fin.sent = <<[status |-> "Submitted"]>>
          /\ fin.ready = Some(TRUE)
          /\ fin.statuses # None /\ "Pending" \notin Val(fin.statuses)
          /\ fin.errors # None /\ TRUE \notin DOMAIN Val(fin.errors)
          /\ fin.seen # None
          /\ \A v \in Range(Val(fin.seen)) : v.errors \subseteq fin.ignorelist
    /\ fin.err \in {Some("NotReadyError"), Some("USIDataError")} =>
          fin.sent = <<>>

C10_Witness ==
    /\ fin.pc = "returned"
    /\ fin.sent # <<>>
    /\ fin.ignorelist = {"Ena"}
    /\ \E v \in Range(Val(fin.seen)) : v.errors = {"Ena"}
    /\ remote.status = "Submitted"

C27_CountsFromCheckedSnapshot ==
    fin.errors # None =>
        /\ fin.statuses # None
        /\ \A v \in Range(Val(fin.seen)) :
              /\ v.validationStatus # "Pending"
              /\ v.validationStatus \in Val(fin.statuses)

(***************************************************************************)
(* Claims checked under SpecSample.                                        *)
(***************************************************************************)
\* C23: the payload create_sample posts is the caller's sample data, except
\* that every sampleRelationships entry without 'team' has the submission's
\* team and a missing 'releaseDate' is today's date; a 'team' or a
\* 'releaseDate' the caller gave is as given.
C23_PayloadCompleted ==
    smp.op = "create_sample" =>
        LET b == Val(smp.before)
            p == Val(smp.payload)
        IN  /\ p.releaseDate = IF b.releaseDate = None THEN smp.today
                               ELSE b.releaseDate
            /\ (b.sampleRelationships = None) = (p.sampleRelationships = None)
            /\ b.sampleRelationships # None =>
                   LET br == Val(b.sampleRelationships)
                       pr == Val(p.sampleRelationships)
                   IN  /\ Len(pr) = Len(br)
                       /\ \A i \in 1..Len(br) :
                              /\ pr[i].alias = br[i].alias
                              /\ pr[i].team = IF br[i].team = None
                                              THEN smp.team ELSE br[i].team

C23_Witness ==
    /\ smp.op = "create_sample"
    /\ smp.today = Some("d2")
    /\ smp.team = Some("t2")
    /\ Val(smp.before).releaseDate = Some("d1")
    /\ Val(smp.before).sampleRelationships # None
    /\ Len(Val(Val(smp.before).sampleRelationships)) = 2
    /\ Val(Val(smp.before).sampleRelationships)[1].team = None
    /\ Val(Val(smp.before).sampleRelationships)[2].team = Some("t1")

\* C25: after create_sample or Sample.patch the dictionary the caller
\* passed in, every entry of its sampleRelationships list included, is
\* equal to what it was before the call.
C25_CallerDataUnchanged ==
    smp.op \in {"create_sample", "patch"} =>
        Deref(heap, heap.data) = Val(smp.before)

(***************************************************************************)
(* Claims checked under SpecGetSamples.                                    *)
(***************************************************************************)
\* C24: get_samples(has_errors=b, ignorelist=L) yields exactly the samples,
\* in listing order, whose has_errors(L) equals b, for b = True and for
\* b = False; with has_errors=None no sample is filtered on errors.
C24_FilterByErrors ==
    (smp.op = "get_samples" /\ smp.status = None) =>
        LET all == [i \in 1..Len(smp.listing) |-> i]
            Bad(i) == smp.listing[i].errors \ smp.ignorelist # {}
        IN  smp.yielded =
               IF smp.has_errors = None THEN all
               ELSE SelectSeq(all, LAMBDA i : Bad(i) = Val(smp.has_errors))

====
